---- MODULE Spec2Model ----
(***************************************************************************)
(* Model of genutil/common.go: the compression policy (CompressBehaviour), *)
(* TranslateToCompressBehaviour, and FindAllChildren with its helpers.     *)
(*                                                                         *)
(* A schema is a sequence of yang.Entry records.  Entry 1 is the module    *)
(* root, entry 2 is the entry e that FindAllChildren is called on, and the *)
(* entries after it are e's descendants in declaration (pre-order) order.  *)
(* An entry is referred to by its index, as the Go code refers to it by    *)
(* pointer.                                                                *)
(***************************************************************************)
EXTENDS Integers, Sequences, FiniteSets, TLC

VARIABLES
    schema,             \* the yang.Entry tree handed to FindAllChildren
    compBehaviour,      \* the CompressBehaviour in use
    translated,         \* arguments of the TranslateToCompressBehaviour call made, if any
    pc,                 \* "translate" | "translated" | "find" | "plain" | "loop" | "done"
    orderedChildNames,  \* FindAllChildren: the names still to process, in order
    pos,                \* index of the next child to process
    prioNames,          \* FindAllChildren: names seen under the prioritized container
    directChildren,     \* the map being built: name -> entry
    errs,               \* the errors accumulated: the entry each error names
    calls               \* the addNewChild calls made so far: <<name, entry>>

vars == <<schema, compBehaviour, translated, pc, orderedChildNames, pos,
          prioNames, directChildren, errs, calls>>

---------------------------------------------------------------------------
(* Bounds of the model. *)

\* Number of entries below e.
MaxNodes == 4

\* Number of entries of a schema that carry an explicit "config false".
MaxReadOnly == 1

---------------------------------------------------------------------------
(* CompressBehaviour *)

Uncompressed == 0
UncompressedExcludeDerivedState == 1
PreferIntendedConfig == 2
PreferOperationalState == 3
ExcludeDerivedState == 4

CompressBehaviours ==
    {Uncompressed, UncompressedExcludeDerivedState, PreferIntendedConfig,
     PreferOperationalState, ExcludeDerivedState}

CompressEnabled(c) ==
    IF c \in {Uncompressed, UncompressedExcludeDerivedState} THEN FALSE ELSE TRUE

StateExcluded(c) ==
    IF c \in {ExcludeDerivedState, UncompressedExcludeDerivedState} THEN TRUE ELSE FALSE

\* TranslateToCompressBehaviour with the two compressed results swapped.
TranslateSwapped(compressPaths, excludeState) ==
    CASE compressPaths /\ excludeState -> PreferIntendedConfig
      [] compressPaths /\ ~excludeState -> ExcludeDerivedState
      [] ~compressPaths /\ excludeState -> UncompressedExcludeDerivedState
      [] OTHER -> Uncompressed

TranslateToCompressBehaviour(compressPaths, excludeState) ==
    CASE compressPaths /\ excludeState -> ExcludeDerivedState
      [] compressPaths /\ ~excludeState -> PreferIntendedConfig
      [] ~compressPaths /\ excludeState -> UncompressedExcludeDerivedState
      [] OTHER -> Uncompressed

---------------------------------------------------------------------------
(* yang.Entry, as far as FindAllChildren reads it. *)

NilEntry == 0
ModuleRoot == 1
E == 2

EntryKinds == {"LeafEntry", "DirectoryEntry", "ChoiceEntry", "CaseEntry"}
TriStates == {"TSUnset", "TSTrue", "TSFalse"}

Shape(name, kind, list, type) ==
    [Name |-> name, Kind |-> kind, ListAttr |-> list, Type |-> type]

Entry(shape, parent, config) ==
    [Name |-> shape.Name, Kind |-> shape.Kind, ListAttr |-> shape.ListAttr,
     Type |-> shape.Type, Parent |-> parent, Config |-> config]

ContainerShape(name) == Shape(name, "DirectoryEntry", FALSE, "none")
ListShape(name) == Shape(name, "DirectoryEntry", TRUE, "none")
LeafShape(name) == Shape(name, "LeafEntry", FALSE, "Ystring")
LeafRefShape(name) == Shape(name, "LeafEntry", FALSE, "Yleafref")
ChoiceShape(name) == Shape(name, "ChoiceEntry", FALSE, "none")
CaseShape(name) == Shape(name, "CaseEntry", FALSE, "none")

\* (yang.Entry).IsDir: the entry has a Dir map.
IsDirOf(t, n) == t[n].Kind # "LeafEntry"
\* (yang.Entry).IsList
IsListOf(t, n) == IsDirOf(t, n) /\ t[n].ListAttr
\* (yang.Entry).IsContainer
IsContainerOf(t, n) == t[n].Kind = "DirectoryEntry" /\ ~t[n].ListAttr
\* util.IsChoiceOrCase
IsChoiceOrCaseOf(t, n) == t[n].Kind \in {"ChoiceEntry", "CaseEntry"}
\* util.IsConfigState
IsConfigStateOf(t, n) == IsDirOf(t, n) /\ t[n].Name \in {"config", "state"}

RECURSIVE DepthOf(_, _)
DepthOf(t, n) == IF n = E THEN 0 ELSE 1 + DepthOf(t, t[n].Parent)

RECURSIVE AncestorsOrSelf(_, _)
AncestorsOrSelf(t, n) ==
    IF n = E THEN {E} ELSE {n} \cup AncestorsOrSelf(t, t[n].Parent)

ChildSetOf(t, n) == {i \in DOMAIN t : t[i].Parent = n}

---------------------------------------------------------------------------
(* The schemas FindAllChildren is called on. *)

\* The entries that may be declared under entry p of schema t.  Only the
\* entries FindAllChildren reads are generated: the children of e, the
\* children of e's directory children, and what is below a choice or case.
Catalogue(t, p) ==
    CASE t[p].Kind = "LeafEntry" -> {}
      [] t[p].Kind = "ChoiceEntry" -> {CaseShape("ca")}
      [] p = E ->
            {ContainerShape("config"), ContainerShape("state"), ContainerShape("y"),
             LeafShape("x"), LeafRefShape("x"), ChoiceShape("ch")}
      [] DepthOf(t, p) = 1 /\ IsConfigStateOf(t, p) ->
            {LeafShape("x"), ListShape("x"), LeafShape("y"), ChoiceShape("ch")}
      [] t[p].Kind = "CaseEntry" -> {LeafShape("x"), LeafShape("y"), ChoiceShape("ch")}
      [] DepthOf(t, p) = 1 -> {ListShape("x"), LeafShape("y")}
      [] OTHER -> {}

ReadOnlyCount(t) == Cardinality({i \in DOMAIN t : t[i].Config = "TSFalse"})

AllShapes ==
    {ContainerShape("config"), ContainerShape("state"), ContainerShape("y"),
     ListShape("x"), LeafShape("x"), LeafShape("y"), LeafRefShape("x"),
     ChoiceShape("ch"), CaseShape("ca")}

\* Every entry that could be declared below e.
Candidates ==
    {Entry(s, p, c) : s \in AllShapes, p \in E..(E + MaxNodes),
                      c \in {"TSUnset", "TSFalse"}}

\* Entry n may be declared in schema t after all its entries: its parent is
\* e or the last entry or one of its ancestors (declaration order), its
\* sibling names are unique (the schema loader guarantees it), and the
\* explicit "config false" statements stay within the bound.
Declarable(t, n) ==
    /\ n.Parent <= Len(t)
    /\ n.Parent \in AncestorsOrSelf(t, Len(t))
    /\ Shape(n.Name, n.Kind, n.ListAttr, n.Type) \in Catalogue(t, n.Parent)
    /\ \A i \in ChildSetOf(t, n.Parent) : t[i].Name # n.Name
    /\ n.Config = "TSFalse" => ReadOnlyCount(t) < MaxReadOnly

\* The schemas of S, each with one more entry.
Extend(S) ==
    {Append(q[1], q[2]) : q \in {r \in S \X Candidates : Declarable(r[1], r[2])}}

EShapes == {ContainerShape("e"), ListShape("e"), CaseShape("e")}

\* Module root and e: e writable, explicitly or by default; e read-only,
\* explicitly or by inheritance.
Roots ==
    { <<Entry(ContainerShape("m"), NilEntry, rc[1]), Entry(s, ModuleRoot, rc[2])>> :
        s \in EShapes,
        rc \in {<<"TSUnset", "TSUnset">>, <<"TSUnset", "TSTrue">>,
                <<"TSUnset", "TSFalse">>, <<"TSFalse", "TSUnset">>} }

\* The schemas with exactly k entries below e.
RECURSIVE SchemasOfSize(_)
SchemasOfSize(k) ==
    IF k = 0 THEN {t \in Roots : ReadOnlyCount(t) <= MaxReadOnly}
    ELSE Extend(SchemasOfSize(k - 1))

---------------------------------------------------------------------------
(* Helpers of package util, over the schema in use. *)

IsDir(n) == IsDirOf(schema, n)
IsList(n) == IsListOf(schema, n)
IsContainer(n) == IsContainerOf(schema, n)
IsChoiceOrCase(n) == IsChoiceOrCaseOf(schema, n)
IsConfigState(n) == IsConfigStateOf(schema, n)
IsLeafRef(n) == schema[n].Type = "Yleafref"
NameOf(n) == schema[n].Name

\* util.IsConfig: the nearest explicit config statement decides; the top
\* entry is config true unless it says false.
RECURSIVE IsConfig(_)
IsConfig(n) ==
    IF schema[n].Parent = NilEntry THEN schema[n].Config # "TSFalse"
    ELSE CASE schema[n].Config = "TSTrue" -> TRUE
           [] schema[n].Config = "TSFalse" -> FALSE
           [] OTHER -> IsConfig(schema[n].Parent)

RECURSIVE SeqOfSet(_)
SeqOfSet(S) ==
    IF S = {} THEN <<>>
    ELSE LET m == CHOOSE i \in S : \A j \in S : i <= j
         IN  <<m>> \o SeqOfSet(S \ {m})

\* util.Children: the entries of n's directory, in declaration order.
Children(n) == SeqOfSet(ChildSetOf(schema, n))

\* e.Dir[name]; NilEntry when the name is not in the directory.
Dir(n, name) ==
    LET S == {i \in ChildSetOf(schema, n) : NameOf(i) = name}
    IN  IF S = {} THEN NilEntry ELSE CHOOSE i \in S : TRUE

RECURSIVE FlattenSeq(_, _)
RECURSIVE findFirstNonChoiceOrCaseInternal(_)
\* util.FindFirstNonChoiceOrCase: the first descendants of n that are
\* neither choice nor case.
findFirstNonChoiceOrCaseInternal(n) ==
    IF ~IsChoiceOrCase(n) THEN <<n>>
    ELSE FlattenSeq(Children(n), 1)
FlattenSeq(s, i) ==
    IF i > Len(s) THEN <<>>
    ELSE findFirstNonChoiceOrCaseInternal(s[i]) \o FlattenSeq(s, i + 1)

FindFirstNonChoiceOrCase(n) == FlattenSeq(Children(n), 1)

Range(s) == {s[i] : i \in DOMAIN s}

EmptyMap == [k \in {} |-> NilEntry]

---------------------------------------------------------------------------
(* The duplicate guard and the choice/case flattening into a map. *)

\* addNewChild that replaces the entry of a name already present.
addNewChildOverwrites(m, k, v, es, cs) ==
    IF k \notin DOMAIN m
    THEN [m |-> (k :> v) @@ m, errs |-> es, calls |-> Append(cs, <<k, v>>)]
    ELSE [m |-> (k :> v) @@ m, errs |-> Append(es, v), calls |-> Append(cs, <<k, v>>)]

\* addNewChild: m is updated in place in the Go code and errs is returned;
\* here both come back.  An error is recorded as the entry whose path it names.
\* cs is the record of the calls made so far, to which this call is added.
addNewChild(m, k, v, es, cs) ==
    IF k \notin DOMAIN m
    THEN [m |-> (k :> v) @@ m, errs |-> es, calls |-> Append(cs, <<k, v>>)]
    ELSE [m |-> m, errs |-> Append(es, v), calls |-> Append(cs, <<k, v>>)]

RECURSIVE addNonChoiceChildrenFrom(_, _, _, _, _)
addNonChoiceChildrenFrom(m, nch, i, es, cs) ==
    IF i > Len(nch) THEN [m |-> m, errs |-> es, calls |-> cs]
    ELSE LET r == addNewChild(m, NameOf(nch[i]), nch[i], es, cs)
         IN  addNonChoiceChildrenFrom(r.m, nch, i + 1, r.errs, r.calls)

\* addNonChoiceChildren that adds the choice or case itself.
addChoiceItself(m, e, es, cs) == addNewChild(m, NameOf(e), e, es, cs)

addNonChoiceChildren(m, e, es, cs) ==
    addNonChoiceChildrenFrom(m, FindFirstNonChoiceOrCase(e), 1, es, cs)

RECURSIVE addNonChoiceChildrenDuplistFrom(_, _, _, _, _, _)
addNonChoiceChildrenDuplistFrom(m, nch, i, duplist, es, cs) ==
    IF i > Len(nch) THEN [m |-> m, errs |-> es, calls |-> cs]
    ELSE IF NameOf(nch[i]) \in duplist
         THEN addNonChoiceChildrenDuplistFrom(m, nch, i + 1, duplist, es, cs)
         ELSE LET r == addNewChild(m, NameOf(nch[i]), nch[i], es, cs)
              IN  addNonChoiceChildrenDuplistFrom(r.m, nch, i + 1, duplist, r.errs, r.calls)

addNonChoiceChildrenDuplist(m, e, duplist, es, cs) ==
    addNonChoiceChildrenDuplistFrom(m, FindFirstNonChoiceOrCase(e), 1, duplist, es, cs)

---------------------------------------------------------------------------
(* FindAllChildren *)

\* excludeState that forgets the uncompressed state-excluding policy.
excludeStateCompressedOnly(c) == c = ExcludeDerivedState

\* excludeState, as FindAllChildren computes it from compBehaviour.
excludeStateOf(c) == c = ExcludeDerivedState \/ c = UncompressedExcludeDerivedState

\* The early return: state is excluded and e is config false itself.
ReturnsEmpty(c) == excludeStateOf(c) /\ ~IsConfig(E)

\* prioData and deprioData ("" where the code leaves them unset).
PrioDataOf(c) ==
    CASE c \in {PreferIntendedConfig, ExcludeDerivedState} -> "config"
      [] c = PreferOperationalState -> "state"
      [] OTHER -> ""

DeprioDataOf(c) ==
    CASE c \in {PreferIntendedConfig, ExcludeDerivedState} -> "state"
      [] c = PreferOperationalState -> "config"
      [] OTHER -> ""

PrioData == PrioDataOf(compBehaviour)
DeprioData == DeprioDataOf(compBehaviour)

RECURSIVE NamesExcept(_, _, _)
NamesExcept(s, i, name) ==
    IF i > Len(s) THEN <<>>
    ELSE (IF NameOf(s[i]) # name THEN <<NameOf(s[i])>> ELSE <<>>)
         \o NamesExcept(s, i + 1, name)

\* orderedChildNames in plain declaration order.
DeclarationOrder(prioData) == NamesExcept(Children(E), 1, "")

\* The order in which the children of e are processed: the prioritized
\* container first when e is a container or a list, then every other child.
OrderedChildNames(prioData) ==
    (IF (IsContainer(E) \/ IsList(E)) /\ Dir(E, prioData) # NilEntry
     THEN <<prioData>> ELSE <<>>)
    \o NamesExcept(Children(E), 1, prioData)

\* ConfigStateChild without the whitelist: a child of the deprioritized
\* container is added like one of the prioritized container.
ConfigStateChildNoWhitelist(c, g, m, es, prio, cs) ==
    LET r == IF IsChoiceOrCase(g)
             THEN addNonChoiceChildren(m, g, es, cs)
             ELSE addNewChild(m, NameOf(g), g, es, cs)
    IN  [m |-> r.m, errs |-> r.errs, prio |-> prio, calls |-> r.calls]

\* ConfigStateChild that drops every child of the deprioritized container.
ConfigStateChildDropDeprio(c, g, m, es, prio, cs) ==
    LET r == IF NameOf(c) = DeprioData
             THEN [m |-> m, errs |-> es, calls |-> cs]
             ELSE IF IsChoiceOrCase(g)
                  THEN addNonChoiceChildren(m, g, es, cs)
                  ELSE addNewChild(m, NameOf(g), g, es, cs)
        p == IF NameOf(c) = PrioData
             THEN IF IsChoiceOrCase(g)
                  THEN prio \cup {NameOf(n) : n \in Range(FindFirstNonChoiceOrCase(g))}
                  ELSE prio \cup {NameOf(g)}
             ELSE prio
    IN  [m |-> r.m, errs |-> r.errs, prio |-> p, calls |-> r.calls]

\* One child of a config or state container c: the child g is hoisted into m.
ConfigStateChild(c, g, m, es, prio, cs) ==
    LET r == IF NameOf(c) = DeprioData
             THEN IF IsChoiceOrCase(g)
                  THEN addNonChoiceChildrenDuplist(m, g, prio, es, cs)
                  ELSE IF NameOf(g) \notin prio
                       THEN addNewChild(m, NameOf(g), g, es, cs)
                       ELSE [m |-> m, errs |-> es, calls |-> cs]
             ELSE IF IsChoiceOrCase(g)
                  THEN addNonChoiceChildren(m, g, es, cs)
                  ELSE addNewChild(m, NameOf(g), g, es, cs)
        p == IF NameOf(c) = PrioData
             THEN IF IsChoiceOrCase(g)
                  THEN prio \cup {NameOf(n) : n \in Range(FindFirstNonChoiceOrCase(g))}
                  ELSE prio \cup {NameOf(g)}
             ELSE prio
    IN  [m |-> r.m, errs |-> r.errs, prio |-> p, calls |-> r.calls]

RECURSIVE ConfigStateChildrenFrom(_, _, _, _, _, _, _)
ConfigStateChildrenFrom(c, gs, i, m, es, prio, cs) ==
    IF i > Len(gs) THEN [m |-> m, errs |-> es, prio |-> prio, calls |-> cs]
    ELSE LET r == ConfigStateChild(c, gs[i], m, es, prio, cs)
         IN  ConfigStateChildrenFrom(c, gs, i + 1, r.m, r.errs, r.prio, r.calls)

\* DirectoryChild without rule 2: the container around a list is kept.
DirectoryChildKeepsWrapper(c, m, es, cs) ==
    IF IsChoiceOrCase(c) THEN addNonChoiceChildren(m, c, es, cs)
    ELSE addNewChild(m, NameOf(c), c, es, cs)

\* A directory child c that is no config or state container.
DirectoryChild(c, m, es, cs) ==
    LET eGrandChildren == Children(c)
    IN  CASE Len(eGrandChildren) = 1 /\ IsList(eGrandChildren[1]) ->
                IF ~IsConfig(eGrandChildren[1]) /\ excludeStateOf(compBehaviour)
                THEN [m |-> m, errs |-> es, calls |-> cs]
                ELSE addNewChild(m, NameOf(eGrandChildren[1]), eGrandChildren[1], es, cs)
          [] IsChoiceOrCase(c) -> addNonChoiceChildren(m, c, es, cs)
          [] OTHER -> addNewChild(m, NameOf(c), c, es, cs)

\* LeafChild that keeps the leafrefs of a list.
LeafChildKeepsLeafRef(c, m, es, cs) == addNewChild(m, NameOf(c), c, es, cs)

\* A leaf child c: leafrefs directly under a list are left out.
LeafChild(c, m, es, cs) ==
    IF ~(IsList(E) /\ IsLeafRef(c))
    THEN addNewChild(m, NameOf(c), c, es, cs)
    ELSE [m |-> m, errs |-> es, calls |-> cs]

\* UncompressedChild that does not flatten a choice or case.
UncompressedChildNoFlatten(child, m, es, cs) ==
    IF excludeStateOf(compBehaviour) /\ ~IsConfig(child)
    THEN [m |-> m, errs |-> es, calls |-> cs]
    ELSE addNewChild(m, NameOf(child), child, es, cs)

\* One child of e in findAllChildrenWithoutCompression.
UncompressedChild(child, m, es, cs) ==
    IF excludeStateOf(compBehaviour) /\ ~IsConfig(child)
    THEN [m |-> m, errs |-> es, calls |-> cs]
    ELSE IF IsChoiceOrCase(child)
         THEN addNonChoiceChildren(m, child, es, cs)
         ELSE addNewChild(m, NameOf(child), child, es, cs)

---------------------------------------------------------------------------
(* The state machine. *)

\* Either the policy translation is about to be called, or FindAllChildren
\* is, on a schema the loader has built.
Init ==
    /\ \/ /\ pc = "translate"
          /\ schema = <<>>
       \/ /\ pc = "find"
          /\ \E k \in 0..MaxNodes : schema \in SchemasOfSize(k)
    /\ compBehaviour = Uncompressed
    /\ translated = <<>>
    /\ orderedChildNames = <<>>
    /\ pos = 1
    /\ prioNames = {}
    /\ directChildren = EmptyMap
    /\ errs = <<>>
    /\ calls = <<>>

\* TranslateToCompressBehaviour(compressPaths, excludeState)
Translate ==
    /\ pc = "translate"
    /\ \E compressPaths \in BOOLEAN, excludeState \in BOOLEAN :
          /\ translated' = <<compressPaths, excludeState>>
          /\ compBehaviour' = TranslateToCompressBehaviour(compressPaths, excludeState)
    /\ pc' = "translated"
    /\ UNCHANGED <<schema, orderedChildNames, pos, prioNames, directChildren, errs, calls>>

\* FindAllChildren(e, compBehaviour) is called: the early return, or the
\* set-up of one of the two loops over the children of e.
Call ==
    /\ pc = "find"
    /\ \E c \in CompressBehaviours :
          /\ compBehaviour' = c
          /\ IF ReturnsEmpty(c)
             THEN /\ pc' = "done"
                  /\ orderedChildNames' = <<>>
             ELSE IF ~CompressEnabled(c)
                  THEN /\ pc' = IF Len(Children(E)) = 0 THEN "done" ELSE "plain"
                       /\ orderedChildNames' = <<>>
                  ELSE LET names == OrderedChildNames(PrioDataOf(c))
                       IN  /\ orderedChildNames' = names
                           /\ pc' = IF Len(names) = 0 THEN "done" ELSE "loop"
    /\ pos' = 1
    /\ UNCHANGED <<schema, translated, prioNames, directChildren, errs, calls>>

\* One iteration of the loop of findAllChildrenWithoutCompression.
PlainStep ==
    /\ pc = "plain"
    /\ LET r == UncompressedChild(Children(E)[pos], directChildren, errs, calls)
       IN  /\ directChildren' = r.m
           /\ errs' = r.errs
           /\ calls' = r.calls
    /\ pos' = pos + 1
    /\ pc' = IF pos + 1 > Len(Children(E)) THEN "done" ELSE "plain"
    /\ UNCHANGED <<schema, compBehaviour, translated, orderedChildNames, prioNames>>

CurrChild == Dir(E, orderedChildNames[pos])

Advance ==
    /\ pos' = pos + 1
    /\ pc' = IF pos + 1 > Len(orderedChildNames) THEN "done" ELSE "loop"
    /\ UNCHANGED <<schema, compBehaviour, translated, orderedChildNames>>

\* case excludeState && !util.IsConfig(e.Dir[currChild]): continue
SkipReadOnly ==
    /\ pc = "loop"
    /\ excludeStateOf(compBehaviour) /\ ~IsConfig(CurrChild)
    /\ Advance
    /\ UNCHANGED <<prioNames, directChildren, errs, calls>>

\* case util.IsConfigState(e.Dir[currChild])
HoistConfigState ==
    /\ pc = "loop"
    /\ ~(excludeStateOf(compBehaviour) /\ ~IsConfig(CurrChild))
    /\ IsConfigState(CurrChild)
    /\ LET r == ConfigStateChildrenFrom(CurrChild, Children(CurrChild), 1,
                                        directChildren, errs, prioNames, calls)
       IN  /\ directChildren' = r.m
           /\ errs' = r.errs
           /\ calls' = r.calls
           /\ prioNames' = r.prio
    /\ Advance

\* case e.Dir[currChild].IsDir()
Directory ==
    /\ pc = "loop"
    /\ ~(excludeStateOf(compBehaviour) /\ ~IsConfig(CurrChild))
    /\ ~IsConfigState(CurrChild)
    /\ IsDir(CurrChild)
    /\ LET r == DirectoryChild(CurrChild, directChildren, errs, calls)
       IN  /\ directChildren' = r.m
           /\ errs' = r.errs
           /\ calls' = r.calls
    /\ Advance
    /\ UNCHANGED prioNames

\* default: a leaf
Leaf ==
    /\ pc = "loop"
    /\ ~(excludeStateOf(compBehaviour) /\ ~IsConfig(CurrChild))
    /\ ~IsConfigState(CurrChild)
    /\ ~IsDir(CurrChild)
    /\ LET r == LeafChild(CurrChild, directChildren, errs, calls)
       IN  /\ directChildren' = r.m
           /\ errs' = r.errs
           /\ calls' = r.calls
    /\ Advance
    /\ UNCHANGED prioNames

Next ==
    \/ Translate
    \/ Call
    \/ PlainStep
    \/ SkipReadOnly
    \/ HoistConfigState
    \/ Directory
    \/ Leaf

Spec == Init /\ [][Next]_vars

---------------------------------------------------------------------------
(* Vocabulary of the properties. *)

Done == pc = "done"
Values == {directChildren[k] : k \in DOMAIN directChildren}
ErrNodes == Range(errs)
ErrNames == {NameOf(n) : n \in ErrNodes}
Below == {i \in DOMAIN schema : i > E}
DeclaredNames == {NameOf(i) : i \in Below}
Compressed == CompressEnabled(compBehaviour)
ContainerOrList == IsContainer(E) \/ IsList(E)
ConfigC == Dir(E, "config")
StateC == Dir(E, "state")
PrioC == Dir(E, PrioData)
DeprioC == Dir(E, DeprioData)
ReadOnly(n) == ~IsConfig(n)

\* Child c of e is not skipped as read-only.
Kept(c) == ~(StateExcluded(compBehaviour) /\ ReadOnly(c))

\* Child c of e is in the processing order: when compressing, the child
\* named like the prioritized container is scheduled only if e is a
\* container or a list.
Scheduled(c) ==
    Compressed => \E i \in DOMAIN orderedChildNames : orderedChildNames[i] = NameOf(c)

\* e has a config and a state container that both declare a leaf named x.
MirroredLeaf(x) ==
    /\ ConfigC # NilEntry /\ IsContainer(ConfigC)
    /\ StateC # NilEntry /\ IsContainer(StateC)
    /\ Dir(ConfigC, x) # NilEntry /\ ~IsDir(Dir(ConfigC, x))
    /\ Dir(StateC, x) # NilEntry /\ ~IsDir(Dir(StateC, x))

\* The prioritized container is not dropped as read-only.
PrioKept == ~(StateExcluded(compBehaviour) /\ ReadOnly(PrioC))

\* No entry below e other than the two mirrored leaves is named x.
OnlyMirrored(x) ==
    \A i \in Below : NameOf(i) = x => i \in {Dir(ConfigC, x), Dir(StateC, x)}

---------------------------------------------------------------------------
(* C1 *)

\* C1 as stated: under every compressed policy, when e has a config and a
\* state container each declaring a leaf x, the returned child set has an
\* entry for x and no error names an entry called x.
C1_AsStated ==
    (Done /\ Compressed) =>
        \A x \in DeclaredNames :
            MirroredLeaf(x) => /\ x \in DOMAIN directChildren
                               /\ x \notin ErrNames

\* Neither the config nor the state container is hoisted: each is dropped as
\* read-only or left out of the processing order.
NoneHoisted == \A c \in {ConfigC, StateC} : ~(Kept(c) /\ Scheduled(c))

\* C1 as amended: unless neither container is hoisted (each is dropped as
\* read-only, or is the prioritized container of an e that is no container
\* or list), the child set has an entry for x; when no other
\* entry below e is called x, that entry is one of the two leaves and no
\* error names an x.
C1_Mirrored ==
    (Done /\ Compressed) =>
        \A x \in DeclaredNames :
            (MirroredLeaf(x) /\ ~NoneHoisted) =>
                /\ x \in DOMAIN directChildren
                /\ OnlyMirrored(x) =>
                      /\ directChildren[x] \in {Dir(ConfigC, x), Dir(StateC, x)}
                      /\ x \notin ErrNames

\* Under PreferOperationalState the mirrored leaf x is resolved to the leaf
\* of the state container.
C1_Witness ==
    /\ Done /\ compBehaviour = PreferOperationalState /\ ContainerOrList
    /\ MirroredLeaf("x")
    /\ "x" \in DOMAIN directChildren
    /\ directChildren["x"] = Dir(StateC, "x")
    /\ errs = <<>>

---------------------------------------------------------------------------
(* C2 *)

\* Name x is declared, as a data node, under both the prioritized and the
\* deprioritized container of e.
DeclaredUnderBoth(x) ==
    /\ Dir(PrioC, x) # NilEntry /\ ~IsChoiceOrCase(Dir(PrioC, x))
    /\ Dir(DeprioC, x) # NilEntry /\ ~IsChoiceOrCase(Dir(DeprioC, x))

HasConfigAndState ==
    /\ ConfigC # NilEntry /\ IsDir(ConfigC)
    /\ StateC # NilEntry /\ IsDir(StateC)

\* C2 as stated: under a compressed policy, for a container or list e with a
\* config and a state child, the prioritized container heads the processing
\* order, and for every x declared under both the entry returned for x is
\* the one of the prioritized container.
C2_AsStated ==
    (Done /\ Compressed /\ ContainerOrList /\ HasConfigAndState) =>
        /\ Len(orderedChildNames) > 0 => orderedChildNames[1] = PrioData
        /\ \A x \in DeclaredNames :
              (DeclaredUnderBoth(x) /\ x \in DOMAIN directChildren) =>
                  directChildren[x] = Dir(PrioC, x)

\* C2 as amended: the prioritized container heads the processing order and
\* nothing is in the child set before it is processed; when it is not
\* dropped as read-only, every x declared under both containers has an
\* entry, which is never the one of the deprioritized container, and is the
\* one of the prioritized container unless that one raised a duplicate
\* error inside its own container.
C2_PriorityFirst ==
    (pc \in {"loop", "done"} /\ Compressed /\ ContainerOrList /\ HasConfigAndState
       /\ ~(StateExcluded(compBehaviour) /\ ReadOnly(E))) =>
        /\ orderedChildNames[1] = PrioData
        /\ \A i \in 2..Len(orderedChildNames) : orderedChildNames[i] # PrioData
        /\ (pc = "loop" /\ pos = 1) => DOMAIN directChildren = {}
        /\ (Done /\ PrioKept) =>
              \A x \in DeclaredNames :
                  DeclaredUnderBoth(x) =>
                      /\ x \in DOMAIN directChildren
                      /\ directChildren[x] # Dir(DeprioC, x)
                      /\ \/ directChildren[x] = Dir(PrioC, x)
                         \/ Dir(PrioC, x) \in ErrNodes

\* The state container is declared before the config container, and the
\* mirrored x is still resolved to the leaf of the config container.
C2_Witness ==
    /\ Done /\ compBehaviour = PreferIntendedConfig /\ ContainerOrList
    /\ HasConfigAndState /\ StateC < ConfigC
    /\ DeclaredUnderBoth("x")
    /\ "x" \in DOMAIN directChildren
    /\ directChildren["x"] = Dir(ConfigC, "x")

---------------------------------------------------------------------------
(* C3 *)

\* A directory child of e whose only child is a list that rule 2 drops as
\* read-only.
DropsItsList(c) ==
    /\ Compressed
    /\ Len(Children(c)) = 1 /\ IsList(Children(c)[1])
    /\ StateExcluded(compBehaviour) /\ ReadOnly(Children(c)[1])

\* The choice and case entries FindAllChildren meets: those declared under e
\* and, when compressing, those declared under a config or state container.
WrappersMet ==
    {w \in Below :
        /\ IsChoiceOrCase(w)
        /\ \/ schema[w].Parent = E /\ Kept(w) /\ ~DropsItsList(w)
           \/ /\ Compressed
              /\ schema[schema[w].Parent].Parent = E
              /\ IsConfigState(schema[w].Parent)
              /\ Kept(schema[w].Parent)
              /\ Scheduled(schema[w].Parent)}

\* C3: under every policy no value of the child set is a choice or a case,
\* at any point of the call; and once the call has returned, every first
\* non-choice, non-case descendant of a choice or case that was met has an
\* entry under its name.
C3_NoChoiceOrCase ==
    /\ \A k \in DOMAIN directChildren : ~IsChoiceOrCase(directChildren[k])
    /\ (Done /\ ~(StateExcluded(compBehaviour) /\ ReadOnly(E))) =>
          \A w \in WrappersMet :
              \A n \in Range(FindFirstNonChoiceOrCase(w)) :
                  NameOf(n) \in DOMAIN directChildren

\* A leaf below a case of a choice of the config container is an entry of
\* the child set of e.
C3_Witness ==
    /\ Done /\ Compressed
    /\ \E v \in Values :
          /\ IsChoiceOrCase(schema[v].Parent)
          /\ DepthOf(schema, v) = 4
          /\ \E w \in WrappersMet : schema[w].Parent = ConfigC

---------------------------------------------------------------------------
(* C4 *)

\* C4 as stated: under a state-excluding policy every entry of the returned
\* child set is config true, explicitly or by inheritance.
C4_AsStated ==
    (Done /\ StateExcluded(compBehaviour)) => \A v \in Values : IsConfig(v)

---------------------------------------------------------------------------
(* C5 *)

\* The containers declared under e whose only declared child is a list.
ListWrappers ==
    {c \in Below :
        /\ schema[c].Parent = E /\ IsContainer(c)
        /\ Len(Children(c)) = 1 /\ IsList(Children(c)[1])}

\* C5 as stated: under every compressed policy such a container is not in
\* the child set and its list is, under the list's own name.
C5_AsStated ==
    (Done /\ Compressed) =>
        \A c \in ListWrappers :
            LET l == Children(c)[1]
            IN  /\ c \notin Values
                /\ NameOf(l) \in DOMAIN directChildren
                /\ directChildren[NameOf(l)] = l

\* C5 as amended: such a container is never in the child set; unless the
\* container or its list is dropped as read-only under ExcludeDerivedState,
\* or the container is left out of the processing order (it is named like
\* the prioritized container and e is no container or list), the list's
\* name has an entry, which is the list itself unless the name
\* was taken before it (a duplicate error is then recorded for the list, or,
\* for a list under the deprioritized container, the name is whitelisted).
C5_ListUnwrapped ==
    (Done /\ Compressed) =>
        \A c \in ListWrappers :
            LET l == Children(c)[1]
            IN  /\ c \notin Values
                /\ (Kept(c) /\ Kept(l) /\ Scheduled(c)) =>
                      /\ NameOf(l) \in DOMAIN directChildren
                      /\ \/ directChildren[NameOf(l)] = l
                         \/ l \in ErrNodes
                         \/ NameOf(c) = DeprioData /\ NameOf(l) \in prioNames

\* A list is in the child set in place of the container around it.
C5_Witness ==
    /\ Done /\ Compressed
    /\ \E c \in ListWrappers :
          /\ ~IsConfigState(c)
          /\ NameOf(Children(c)[1]) \in DOMAIN directChildren
          /\ directChildren[NameOf(Children(c)[1])] = Children(c)[1]
          /\ NameOf(c) \notin DOMAIN directChildren

---------------------------------------------------------------------------
(* C6 *)

\* The leafref leaves declared directly under a list e.
ListLeafRefs ==
    {l \in Below : schema[l].Parent = E /\ IsList(E) /\ ~IsDir(l) /\ IsLeafRef(l)}

\* C6 as stated: under every policy a leafref declared directly under a list
\* e is not in the child set of e.
C6_AsStated == Done => \A l \in ListLeafRefs : l \notin Values

\* C6 as amended: under every compressed policy a leafref declared directly
\* under a list e is not in the child set of e.
C6_LeafRefDropped == (Done /\ Compressed) => \A l \in ListLeafRefs : l \notin Values

\* The leafref of a list is dropped while the leaf of the same name below the
\* config container is an entry.
C6_Witness ==
    /\ Done /\ Compressed
    /\ \E l \in ListLeafRefs :
          /\ NameOf(l) \in DOMAIN directChildren
          /\ schema[directChildren[NameOf(l)]].Parent = ConfigC
          /\ errs = <<>>

---------------------------------------------------------------------------
(* C7 *)

\* C7: when the policy excludes state and e is config false, explicitly or
\* by inheritance, the call returns at once with an empty child set and no
\* error, whatever e declares.
C7_ReadOnlyEmpty ==
    (pc \in {"plain", "loop", "done"} /\ StateExcluded(compBehaviour) /\ ReadOnly(E)) =>
        /\ Done
        /\ DOMAIN directChildren = {}
        /\ errs = <<>>

\* A read-only e that declares entries whose names collide once hoisted,
\* called with the uncompressed state-excluding policy.
C7_Witness ==
    /\ Done /\ compBehaviour = UncompressedExcludeDerivedState /\ ReadOnly(E)
    /\ schema[E].Config = "TSUnset"
    /\ \E i \in Below, j \in Below : i # j /\ NameOf(i) = NameOf(j)
    /\ DOMAIN directChildren = {}

---------------------------------------------------------------------------
(* C8 *)

\* The data nodes declared under the deprioritized container whose name is
\* not declared under the prioritized container.
StateOnly ==
    {g \in Below :
        /\ schema[g].Parent = DeprioC /\ ~IsChoiceOrCase(g)
        /\ Dir(PrioC, NameOf(g)) = NilEntry}

HasPrioAndDeprio ==
    /\ compBehaviour \in {PreferIntendedConfig, PreferOperationalState}
    /\ HasConfigAndState

\* C8 as stated: under a compressed policy that keeps state, each such node
\* is the entry of its name and no error is recorded for it.
C8_AsStated ==
    (Done /\ HasPrioAndDeprio) =>
        \A g \in StateOnly :
            /\ NameOf(g) \in DOMAIN directChildren
            /\ directChildren[NameOf(g)] = g
            /\ g \notin ErrNodes

\* No other entry below e has the name of g.
NameUnique(g) == \A i \in Below : NameOf(i) = NameOf(g) => i = g

\* C8 as amended: the name of each such node has an entry; the node itself
\* is that entry, with no error recorded for it, unless a child processed
\* earlier supplied the name: then a duplicate error is recorded for the
\* node, or it is dropped because the name is whitelisted (flattened from a
\* choice or case of the prioritized container).  It is always the entry
\* when no other entry below e has its name.
C8_StateOnlyAdmitted ==
    (Done /\ HasPrioAndDeprio) =>
        \A g \in StateOnly :
            /\ NameOf(g) \in DOMAIN directChildren
            /\ \/ directChildren[NameOf(g)] = g /\ g \notin ErrNodes
               \/ /\ directChildren[NameOf(g)] # g
                  /\ g \in ErrNodes \/ NameOf(g) \in prioNames
            /\ NameUnique(g) => directChildren[NameOf(g)] = g /\ g \notin ErrNodes

\* config declares x, state declares y: y is an entry beside x.
C8_Witness ==
    /\ Done /\ HasPrioAndDeprio /\ compBehaviour = PreferIntendedConfig
    /\ Dir(ConfigC, "x") # NilEntry
    /\ Dir(StateC, "y") \in StateOnly
    /\ {"x", "y"} \subseteq DOMAIN directChildren
    /\ directChildren["y"] = Dir(StateC, "y")
    /\ directChildren["x"] = Dir(ConfigC, "x")
    /\ errs = <<>>

---------------------------------------------------------------------------
(* C9 *)

\* What the uncompressed child set is made of: the declared children that
\* are no choice or case, and the first non-choice, non-case descendants of
\* those that are; the read-only declared children are left out when state
\* is excluded.
UncompressedEntries ==
    {c \in Below : schema[c].Parent = E /\ ~IsChoiceOrCase(c) /\ Kept(c)}
    \cup UNION {Range(FindFirstNonChoiceOrCase(w)) :
                    w \in {c \in Below : schema[c].Parent = E /\ IsChoiceOrCase(c)
                                          /\ Kept(c)}}

\* C9 as stated: the uncompressed child set is exactly these entries, each
\* under its own name.
C9_AsStated ==
    (Done /\ ~Compressed) =>
        /\ Values = UncompressedEntries
        /\ \A k \in DOMAIN directChildren : NameOf(directChildren[k]) = k

FirstNamed(S, k) ==
    CHOOSE n \in S : NameOf(n) = k /\ \A o \in S : NameOf(o) = k => n <= o

\* C9 as amended: the uncompressed child set has one entry for each name of
\* these entries, the first of that name in declaration order, under its own
\* name; a duplicate error is recorded for each of the others, and for
\* nothing else.
C9_Uncompressed ==
    (Done /\ ~Compressed) =>
        /\ DOMAIN directChildren = {NameOf(n) : n \in UncompressedEntries}
        /\ \A k \in DOMAIN directChildren :
              directChildren[k] = FirstNamed(UncompressedEntries, k)
        /\ ErrNodes = UncompressedEntries \ Values
        /\ Len(errs) = Cardinality(ErrNodes)

\* The config container is kept as itself, though it has a child, and the
\* leaf below a choice is an entry.
C9_Witness ==
    /\ Done /\ compBehaviour = Uncompressed
    /\ ConfigC \in Values /\ Len(Children(ConfigC)) > 0
    /\ \E v \in Values : IsChoiceOrCase(schema[v].Parent)

---------------------------------------------------------------------------
(* C10 *)

\* C10: the policy returned for (compressPaths, excludeState) compresses iff
\* compressPaths, excludes state iff excludeState, follows the table, and
\* is never PreferOperationalState.
C10_Translate ==
    pc = "translated" =>
        /\ CompressEnabled(compBehaviour) = translated[1]
        /\ StateExcluded(compBehaviour) = translated[2]
        /\ compBehaviour =
              (CASE translated = <<TRUE, TRUE>> -> ExcludeDerivedState
                 [] translated = <<TRUE, FALSE>> -> PreferIntendedConfig
                 [] translated = <<FALSE, TRUE>> -> UncompressedExcludeDerivedState
                 [] translated = <<FALSE, FALSE>> -> Uncompressed)
        /\ compBehaviour # PreferOperationalState

\* (true, true) was translated to ExcludeDerivedState.
C10_Witness ==
    /\ pc = "translated"
    /\ translated = <<TRUE, TRUE>>
    /\ compBehaviour = ExcludeDerivedState

---------------------------------------------------------------------------
(* C11 *)

\* The calls of addNewChild made with a name that an earlier call had.
DuplicateCalls ==
    {i \in DOMAIN calls : \E j \in 1..(i - 1) : calls[j][1] = calls[i][1]}

\* C11: at every point of a FindAllChildren call, the name of every
\* addNewChild call made so far has an entry, the entry of a name is the
\* node of the first call made with that name (also when that call follows
\* a duplicate), every entry comes from a call, and there are as many
\* errors as calls made with a name already present.
C11_FirstCallWins ==
    /\ \A i \in DOMAIN calls :
          /\ calls[i][1] \in DOMAIN directChildren
          /\ i \notin DuplicateCalls => directChildren[calls[i][1]] = calls[i][2]
    /\ \A k \in DOMAIN directChildren : \E i \in DOMAIN calls : calls[i][1] = k
    /\ Len(errs) = Cardinality(DuplicateCalls)

\* A second call with the name of the first records one error and leaves
\* the first node in place; a later call with a fresh name is inserted.
C11_Witness ==
    /\ Done
    /\ Len(errs) = 1
    /\ \E i \in DOMAIN calls, j \in DOMAIN calls, l \in DOMAIN calls :
          /\ i < j /\ j < l
          /\ calls[i][1] = calls[j][1] /\ calls[i][2] # calls[j][2]
          /\ i \notin DuplicateCalls /\ l \notin DuplicateCalls
          /\ directChildren[calls[i][1]] = calls[i][2]
          /\ directChildren[calls[l][1]] = calls[l][2]
          /\ errs[1] = calls[j][2]

====
